---- MODULE Spec2Model ----
(***************************************************************************)
(* Model of the proof anchoring pipeline of velane-demo:                   *)
(*   src/src/proofs/proofs.service.ts     ProofsService.initAndMint        *)
(*   src/src/proofs/proofs.controller.ts  ProofsController                 *)
(* Each worker runs one initAndMint call at a time; every `await` of the   *)
(* handler is a point where another worker may run.  The ledger and the    *)
(* relational store are external: they are modelled by their call          *)
(* contracts (a submitted transaction is applied atomically or not at all).*)
(* Strings are sequences of character codes, bytes are integers 0..255.    *)
(***************************************************************************)
EXTENDS Integers, Sequences, FiniteSets, TLC

\* ---------------------------------------------------------------- bounds
MaxRequests == 2
NumWorkers == 2

Workers == 1..NumWorkers

\* ------------------------------------------------------- values and text
\* `undefined` / `null` of the source: a value no string is equal to.
Undefined == <<-1>>
EmptyString == <<>>

\* Character codes used by the texts of the model (UTF-8 = ASCII here).
ChBar == 124
ChColon == 58
ChMinus == 45
ChZero == 48
Ch_t == 116
Ch_s == 115
Ch_r == 114
Ch_i == 105
Ch_d == 100

RECURSIVE NatDigits(_)
NatDigits(n) ==
    IF n < 10 THEN <<ChZero + n>>
    ELSE NatDigits(n \div 10) \o <<ChZero + (n % 10)>>

\* `${timestamp}` of an integer: its base 10 digits, "-" first when negative.
NumberToString(n) == IF n < 0 THEN <<ChMinus>> \o NatDigits(0 - n) ELSE NatDigits(n)

\* x ?? dflt
Coalesce(x, dflt) == IF x = Undefined THEN dflt ELSE x

\* ------------------------------------------------------------ bs58.decode
\* The base58 digits the model draws from, with their value in the alphabet
\* "123456789ABC...xyz"; "0" is not a base58 digit.
B58Chars == {"1", "2", "3", "z"}
B58Value(c) == CASE c = "1" -> 0 [] c = "2" -> 1 [] c = "3" -> 2 [] c = "z" -> 57

RECURSIVE B58Number(_)
B58Number(s) ==
    IF s = <<>> THEN 0
    ELSE B58Number(SubSeq(s, 1, Len(s) - 1)) * 58 + B58Value(s[Len(s)])

RECURSIVE BigEndianBytes(_)
BigEndianBytes(n) ==
    IF n = 0 THEN <<>>
    ELSE BigEndianBytes(n \div 256) \o <<n % 256>>

RECURSIVE LeadingOnes(_)
LeadingOnes(s) ==
    IF s = <<>> \/ s[1] # "1" THEN 0 ELSE 1 + LeadingOnes(Tail(s))

B58Valid(s) == \A i \in 1..Len(s) : s[i] \in B58Chars

\* bs58.decode(s) for a valid s: one zero byte per leading "1", then the
\* big-endian bytes of the number the digits spell.
bs58decode(s) ==
    [i \in 1..LeadingOnes(s) |-> 0] \o BigEndianBytes(B58Number(s))

\* ------------------------------------------------- recomputeRuntimeHash
\* sha256 followed by hex encoding, as an ideal (collision free) digest.
sha256hex(input) == [sha256 |-> input]

\* Variant: `${runtimeId}` without the default, an absent runtimeId is
\* spelled "undefined".
HashSuffix_noDefault(timestamp, runtimeId) ==
    <<ChBar, Ch_t, Ch_s, ChColon>> \o NumberToString(timestamp)
      \o <<ChBar, Ch_r, Ch_i, Ch_d, ChColon>>
      \o (IF runtimeId = Undefined
          THEN <<117, 110, 100, 101, 102, 105, 110, 101, 100>> ELSE runtimeId)

\* TextEncoder().encode(`|ts:${timestamp}|rid:${runtimeId ?? ""}`)
HashSuffix(timestamp, runtimeId) ==
    <<ChBar, Ch_t, Ch_s, ChColon>> \o NumberToString(timestamp)
      \o <<ChBar, Ch_r, Ch_i, Ch_d, ChColon>> \o Coalesce(runtimeId, EmptyString)

recomputeRuntimeHash(txBytes, timestamp, runtimeId) ==
    sha256hex(txBytes \o HashSuffix(timestamp, runtimeId))


\* ------------------------------------------------------------ the ledger
\* Signatures the request may name; only SigOnLedger is a transaction the
\* ledger reader knows.  LedgerTxBytes is the serialized transaction the
\* ledger holds for it (the bytes "2z" decodes to).
SigOnLedger == "sigA"
SigUnknown == "sigX"
LedgerTxBytes == <<115>>
LedgerSignatures == {SigOnLedger}

\* rawConn.getTransaction(sig): the transaction record, or null.
getTransaction(sig) == IF sig \in LedgerSignatures THEN LedgerTxBytes ELSE Undefined

\* Mint addresses: the configured master mint, or the key generated for
\* request r (Keypair.generate() never repeats).
MasterMint == 0
MintAddresses == 0..MaxRequests
GeneratedMint(r) == r

\* The signature of the transaction of a kind that request r submits: a
\* non-empty string, different for different transactions.
KindCode(kind) ==
    CASE kind = "createMint" -> 77 [] kind = "createPool" -> 80 [] kind = "mintTo" -> 84
      [] kind = "compress" -> 67 [] kind = "memo" -> 79
TxSignatureOf(kind, r) == <<KindCode(kind)>> \o NatDigits(r)

\* Diagnostic log lines a rejected transaction may carry.
LogAlreadyInUse == "Allocate: account already in use"
LogZeroCode == "custom program error: 0x0"
LogAlreadyInitialized == "Error: Account already initialized"
LogInsufficientFunds == "Error: insufficient funds"
NoLogs == "undefined"
GetLogsThrows == "getLogs throws"
AlreadyExistsLogs == {LogAlreadyInUse, LogZeroCode, LogAlreadyInitialized}
OtherLogs == {LogInsufficientFunds}

\* /already in use|custom program error: 0x0|Account already initialized/i
isExpected(logs) == logs \in AlreadyExistsLogs

\* The catch block of the create-account + mint-to transaction: TRUE when
\* the request returns PREPARE_ATA_OR_MINT_FAILED, FALSE when it goes on.
prepareIsFatal(logs) ==
    IF logs = GetLogsThrows THEN FALSE
    ELSE IF logs = NoLogs THEN FALSE
    ELSE ~isExpected(logs)

\* selectTokenPoolInfo(getTokenPoolInfos(mint)): the pool of the mint, or
\* nothing.  A pool is named by its mint.
NoPool == -1
\* Variant: the query never finds a pool.
selectTokenPoolInfo_none(poolSet, mintKey) == NoPool
selectTokenPoolInfo(poolSet, mintKey) == IF mintKey \in poolSet THEN mintKey ELSE NoPool

\* Math.max(1, Math.min(50, Number(batchCount ?? 1))); batchCount is {} when
\* absent and {n} when present.
Min(a, b) == IF a < b THEN a ELSE b
Max(a, b) == IF a > b THEN a ELSE b
MinAmount == 1
MaxAmount == 50
\* Variant: no lower bound.
clampAmount_noFloor(batchCount) ==
    LET n == IF batchCount = {} THEN 1 ELSE CHOOSE x \in batchCount : TRUE
    IN  Min(MaxAmount, n)

\* Math.max(1, Math.min(50, Number(dto.batchCount ?? 1)))
clampAmount(batchCount) ==
    LET n == IF batchCount = {} THEN 1 ELSE CHOOSE x \in batchCount : TRUE
    IN  Max(MinAmount, Min(MaxAmount, n))

\* ------------------------------------------------------------- requests
TxBytesBase58s == {<<"2", "z">>, <<"3">>, <<"0">>}
Timestamps == {7}
RuntimeIds == {Undefined, EmptyString}
ClaimedHashes == {recomputeRuntimeHash(b, 7, EmptyString) : b \in {<<115>>, <<2>>}}
UserIds == {"u1"}
BatchCounts == {{}, {2}}

InitProofDto ==
    [txSignature : {SigOnLedger, SigUnknown},
     txBytesBase58 : TxBytesBase58s,
     runtimeProofHash : ClaimedHashes,
     timestamp : Timestamps,
     runtimeId : RuntimeIds,
     userId : UserIds,
     batchCount : BatchCounts]

NoDto ==
    [txSignature |-> "none", txBytesBase58 |-> <<>>, runtimeProofHash |-> sha256hex(<<>>),
     timestamp |-> 0, runtimeId |-> Undefined, userId |-> "", batchCount |-> {}]
NoResult == [ok |-> FALSE, error |-> "PENDING"]
Failure(code) == [ok |-> FALSE, error |-> code]

\* InternalServerErrorException({ok: false, error: "INTERNAL", details: e.message})
Internal(message) == [ok |-> FALSE, error |-> "INTERNAL", details |-> message]

\* The message of an error thrown by a call: the fixed text of loadPayer, or
\* whatever the ledger client or the store client reports.
MsgPayerMissing == "PAYER_SECRET_BASE58 missing"
MsgFetch == "fetch failed"
MsgSocket == "read ECONNRESET"
MsgStore == "relation \"runtime_proofs\" does not exist"
LedgerMessages == {MsgFetch}
StoreMessages == {MsgSocket, MsgStore}

\* ------------------------------------------------- POST /proofs/init body
\* A request body: null, a non-object, or an object in which the fields of
\* `absent` are undefined or null and the others carry the values of `dto`.
RequiredFields == <<"txSignature", "txBytesBase58", "runtimeProofHash", "timestamp", "userId">>
RequiredFieldSet == {RequiredFields[i] : i \in 1..Len(RequiredFields)}
ObjectBodies(dtos) == [kind : {"object"}, absent : {{}}, dto : dtos]
NoBody == [kind |-> "none", absent |-> {}, dto |-> NoDto]

\* Variant: the loop reports the last missing field, not the first.
validateBody_lastMissing(body) ==
    IF body.kind # "object" THEN "INVALID_BODY"
    ELSE IF body.absent \cap RequiredFieldSet = {} THEN "OK"
    ELSE LET i == CHOOSE k \in 1..Len(RequiredFields) :
                    /\ RequiredFields[k] \in body.absent
                    /\ \A j \in (k + 1)..Len(RequiredFields) : RequiredFields[j] \notin body.absent
         IN  "MISSING_" \o RequiredFields[i]

\* The checks of ProofsController.init: the error of the BadRequestException
\* it throws, or "OK" when it calls initAndMint.
validateBody(body) ==
    IF body.kind # "object" THEN "INVALID_BODY"
    ELSE IF body.absent \cap RequiredFieldSet = {} THEN "OK"
    ELSE LET i == CHOOSE k \in 1..Len(RequiredFields) :
                    /\ RequiredFields[k] \in body.absent
                    /\ \A j \in 1..(k - 1) : RequiredFields[j] \notin body.absent
         IN  "MISSING_" \o RequiredFields[i]

\* ---------------------------------------------------------------- state
VARIABLES
    env,          \* process.env: which credentials and master mint are set
    w,            \* per worker: position and locals of its initAndMint call
    mints,        \* ledger: mints that exist (a configured master mint may not)
    pools,        \* ledger: mints that have a token pool
    atas,         \* ledger: mints whose payer holding account exists
    bal,          \* ledger: units in the payer's holding account, per mint
    ledgerTxs,    \* ledger: confirmed transactions
    rows,         \* store: table runtime_proofs, in insertion order
    nextReq,      \* number of requests started so far
    storageFailed \* history: requests whose storage call threw

vars == <<env, w, mints, pools, atas, bal, ledgerTxs, rows, nextReq, storageFailed>>
ledgerVars == <<mints, pools, atas, bal, ledgerTxs>>

Envs ==
    {e \in [payer : BOOLEAN, masterMint : BOOLEAN, mintAuthority : BOOLEAN] :
        e.mintAuthority => e.masterMint}

IdleWorker ==
    [pc |-> "idle", req |-> 0, body |-> NoBody, dto |-> NoDto, txInfo |-> Undefined,
     txBytes |-> Undefined, hashVerified |-> FALSE,
     mintPublicKey |-> NoPool, mintTxId |-> Undefined, mintAuthority |-> FALSE,
     pool |-> NoPool, amount |-> 0, prepareLogs |-> "", compressedTxId |-> Undefined,
     result |-> NoResult, reads |-> 0, trace |-> <<>>]

Init ==
    /\ env \in Envs
    /\ w = [p \in Workers |-> IdleWorker]
    /\ mints \in IF env.masterMint THEN {{MasterMint}, {}} ELSE {{}}
    /\ pools = {}
    /\ atas = {}
    /\ bal = [m \in MintAddresses |-> 0]
    /\ ledgerTxs = {}
    /\ rows = <<>>
    /\ nextReq = 0
    /\ storageFailed = {}

\* ---------------------------------------------------------------- helpers
Set(p, rec) == w' = [w EXCEPT ![p] = rec]
Return(p, cur, res) == Set(p, [cur EXCEPT !.pc = "done", !.result = res])
Confirmed(kind, mintKey, amt, r) ==
    [sig |-> TxSignatureOf(kind, r), kind |-> kind, mint |-> mintKey, amount |-> amt, req |-> r]


\* Variant: the hash is compared before the ledger read is looked at.
verifyClaim_hashFirst(dto, txInfo) ==
    IF ~B58Valid(dto.txBytesBase58) THEN "INVALID_TX_BYTES_BASE58"
    ELSE IF recomputeRuntimeHash(bs58decode(dto.txBytesBase58), dto.timestamp, dto.runtimeId)
              # dto.runtimeProofHash
         THEN "RUNTIME_HASH_MISMATCH"
    ELSE IF txInfo = Undefined THEN "TX_NOT_FOUND"
    ELSE "OK"

\* Variant: the result of the ledger read is not looked at.
verifyClaim_noNullCheck(dto, txInfo) ==
    IF ~B58Valid(dto.txBytesBase58) THEN "INVALID_TX_BYTES_BASE58"
    ELSE IF recomputeRuntimeHash(bs58decode(dto.txBytesBase58), dto.timestamp, dto.runtimeId)
              # dto.runtimeProofHash
         THEN "RUNTIME_HASH_MISMATCH"
    ELSE "OK"

\* Variant: the recomputed hash is not compared with the claimed one.
verifyClaim_noHashCheck(dto, txInfo) ==
    IF txInfo = Undefined THEN "TX_NOT_FOUND"
    ELSE IF ~B58Valid(dto.txBytesBase58) THEN "INVALID_TX_BYTES_BASE58"
    ELSE "OK"

\* Variant: the hash is compared only when the request names a runtime.
verifyClaim_hashOnlyWithRuntimeId(dto, txInfo) ==
    IF txInfo = Undefined THEN "TX_NOT_FOUND"
    ELSE IF ~B58Valid(dto.txBytesBase58) THEN "INVALID_TX_BYTES_BASE58"
    ELSE IF /\ dto.runtimeId # Undefined
            /\ recomputeRuntimeHash(bs58decode(dto.txBytesBase58), dto.timestamp, dto.runtimeId)
                  # dto.runtimeProofHash
         THEN "RUNTIME_HASH_MISMATCH"
    ELSE "OK"

\* The checks initAndMint makes on the claim once getTransaction returned:
\* the error code it returns, or "OK".
verifyClaim(dto, txInfo) ==
    IF txInfo = Undefined THEN "TX_NOT_FOUND"
    ELSE IF ~B58Valid(dto.txBytesBase58) THEN "INVALID_TX_BYTES_BASE58"
    ELSE IF recomputeRuntimeHash(bs58decode(dto.txBytesBase58), dto.timestamp, dto.runtimeId)
              # dto.runtimeProofHash
         THEN "RUNTIME_HASH_MISMATCH"
    ELSE "OK"

\* Variant: the row names the configured master mint whatever mint was used.
ProofRow_masterMint(cur, id) ==
    [id |-> id,
     tx_signature |-> cur.dto.txSignature,
     tx_bytes_base58 |-> cur.dto.txBytesBase58,
     runtime_proof_hash |-> cur.dto.runtimeProofHash,
     user_id |-> cur.dto.userId,
     runtime_id |-> cur.dto.runtimeId,
     timestamp_ms |-> cur.dto.timestamp,
     mint_address |-> MasterMint,
     mint_tx_id |-> Coalesce(cur.mintTxId, EmptyString),
     compressed_tx_id |-> cur.compressedTxId,
     chain |-> "solana",
     created_at |-> id,
     req |-> cur.req]

\* Variant: mint_tx_id falls back to the compression transaction.
ProofRow_mintTxFromCompress(cur, id) ==
    [id |-> id,
     tx_signature |-> cur.dto.txSignature,
     tx_bytes_base58 |-> cur.dto.txBytesBase58,
     runtime_proof_hash |-> cur.dto.runtimeProofHash,
     user_id |-> cur.dto.userId,
     runtime_id |-> cur.dto.runtimeId,
     timestamp_ms |-> cur.dto.timestamp,
     mint_address |-> cur.mintPublicKey,
     mint_tx_id |-> Coalesce(cur.mintTxId, cur.compressedTxId),
     compressed_tx_id |-> cur.compressedTxId,
     chain |-> "solana",
     created_at |-> id,
     req |-> cur.req]

\* The row initAndMint inserts, with the columns the table fills in: the
\* serial id and created_at (DEFAULT NOW(): the clock of the store ticks
\* between two inserts).
ProofRow(cur, id) ==
    [id |-> id,
     tx_signature |-> cur.dto.txSignature,
     tx_bytes_base58 |-> cur.dto.txBytesBase58,
     runtime_proof_hash |-> cur.dto.runtimeProofHash,
     user_id |-> cur.dto.userId,
     runtime_id |-> cur.dto.runtimeId,
     timestamp_ms |-> cur.dto.timestamp,
     mint_address |-> cur.mintPublicKey,
     mint_tx_id |-> Coalesce(cur.mintTxId, EmptyString),
     compressed_tx_id |-> cur.compressedTxId,
     chain |-> "solana",
     created_at |-> id,
     req |-> cur.req]

\* metadata of the success payload.
ResultMetadata(dto) ==
    [txHash |-> dto.txSignature,
     runtimeProofHash |-> dto.runtimeProofHash,
     userId |-> dto.userId,
     timestamp |-> dto.timestamp,
     runtimeId |-> Coalesce(dto.runtimeId, EmptyString),
     chain |-> "solana"]

\* Variant: the payload reports no mint transaction.
SuccessResult_noMintTx(cur) ==
    [ok |-> TRUE, error |-> "",
     mint |-> cur.mintPublicKey,
     mintTxId |-> EmptyString,
     compressedTxId |-> cur.compressedTxId,
     metadata |-> ResultMetadata(cur.dto)]

\* The success payload initAndMint returns.
SuccessResult(cur) ==
    [ok |-> TRUE, error |-> "",
     mint |-> cur.mintPublicKey,
     mintTxId |-> Coalesce(cur.mintTxId, EmptyString),
     compressedTxId |-> cur.compressedTxId,
     metadata |-> ResultMetadata(cur.dto)]

\* loadPayer(): TRUE when the key is returned, FALSE when it throws
\* (PAYER_SECRET_BASE58 missing).
loadPayer(e) == e.payer

\* --------------------------------------------------------------- actions
\* POST /proofs/init with a body of `bodies` arrives at an idle worker: the
\* controller checks the body and calls initAndMint, which starts with
\* loadPayer().
init(p, bodies) ==
    /\ w[p].pc \in {"idle", "done"}
    /\ nextReq < MaxRequests
    /\ \E b \in bodies :
         LET cur == [IdleWorker EXCEPT !.req = nextReq + 1, !.body = b, !.dto = b.dto]
             code == validateBody(b)
         IN  IF code # "OK"
             THEN Return(p, cur, Failure(code))
             ELSE IF loadPayer(env)
             THEN Set(p, [cur EXCEPT !.pc = "confirmTx"])
             ELSE Return(p, cur, Internal(MsgPayerMissing))
    /\ nextReq' = nextReq + 1
    /\ UNCHANGED <<env, ledgerVars, rows, storageFailed>>

\* A request whose body carries every required field.
Start(p) == init(p, ObjectBodies(InitProofDto))

\* await confirmTx; then decode and compare the hash (no await in between).
confirmTx(p) ==
    /\ w[p].pc = "confirmTx"
    /\ LET txInfo == getTransaction(w[p].dto.txSignature)
           code == verifyClaim(w[p].dto, txInfo)
           cur == [w[p] EXCEPT !.txInfo = txInfo, !.reads = @ + 1,
                               !.trace = Append(@, "readTx")]
       IN  IF code = "TX_NOT_FOUND"
           THEN Return(p, cur, Failure(code))
           ELSE IF code = "INVALID_TX_BYTES_BASE58"
           THEN Return(p, [cur EXCEPT !.trace = Append(@, "decode")], Failure(code))
           ELSE LET dec == [cur EXCEPT !.txBytes = bs58decode(cur.dto.txBytesBase58),
                                       !.trace = @ \o <<"decode", "hash">>]
                IN  IF code = "OK"
                    THEN Set(p, [dec EXCEPT !.pc = "getStateTreeInfos",
                                            !.hashVerified = TRUE])
                    ELSE Return(p, dec, Failure(code))
    /\ UNCHANGED <<env, ledgerVars, rows, nextReq, storageFailed>>

\* Variant: the payer stands in when the authority secret is missing.
loadMintAuthority_fallsBack(e) == TRUE

\* loadMintAuthority(): TRUE when the key is returned, FALSE when it throws
\* (MASTER_MINT_AUTHORITY_SECRET_BASE58 missing).
loadMintAuthority(e) == e.mintAuthority

\* await getStateTreeInfos; then adopt the master mint or generate a key.
getStateTreeInfos(p) ==
    /\ w[p].pc = "getStateTreeInfos"
    /\ IF env.masterMint
       THEN LET cur == [w[p] EXCEPT !.mintPublicKey = MasterMint] IN
            IF loadMintAuthority(env)
            THEN Set(p, [cur EXCEPT !.mintAuthority = TRUE, !.pc = "getTokenPoolInfos"])
            ELSE Return(p, cur, Failure("MINT_AUTHORITY_MISSING"))
       ELSE Set(p, [w[p] EXCEPT !.mintPublicKey = GeneratedMint(w[p].req),
                                !.pc = "sendMintTx"])
    /\ UNCHANGED <<env, ledgerVars, rows, nextReq, storageFailed>>

\* sendAndConfirmTx(mintTx): confirmed, or rejected (MINT_TX_FAILED).
sendMintTx(p) ==
    /\ w[p].pc = "sendMintTx"
    /\ LET cur == [w[p] EXCEPT !.trace = Append(@, "mintTx")] IN
       \/ /\ cur.mintPublicKey \notin mints
          /\ mints' = mints \cup {cur.mintPublicKey}
          /\ ledgerTxs' = ledgerTxs \cup {Confirmed("createMint", cur.mintPublicKey, 0, cur.req)}
          /\ Set(p, [cur EXCEPT !.mintTxId = TxSignatureOf("createMint", cur.req),
                                !.pc = "getTokenPoolInfos"])
          /\ UNCHANGED <<pools, atas, bal>>
       \/ /\ Return(p, cur, Failure("MINT_TX_FAILED"))
          /\ UNCHANGED ledgerVars
    /\ UNCHANGED <<env, rows, nextReq, storageFailed>>

\* First pool query.
getTokenPoolInfos(p) ==
    /\ w[p].pc = "getTokenPoolInfos"
    /\ LET pool == selectTokenPoolInfo(pools, w[p].mintPublicKey) IN
       Set(p, [w[p] EXCEPT !.pool = pool,
                           !.pc = IF pool = NoPool THEN "createTokenPool" ELSE "mintTo"])
    /\ UNCHANGED <<env, ledgerVars, rows, nextReq, storageFailed>>

\* Variant: a rejected pool creation leaves the request waiting.
onCreatePoolRejected_waits == "waiting"

\* What the catch block of the pool creation does with a rejection: the
\* position the request goes to ("done" = return CREATE_POOL_FAILED).
onCreatePoolRejected == "done"

\* sendAndConfirmTx(createPool): confirmed, or rejected; the ledger rejects
\* the creation of a pool that exists.
createTokenPool(p) ==
    /\ w[p].pc = "createTokenPool"
    /\ LET cur == [w[p] EXCEPT !.trace = Append(@, "createPool")] IN
       \/ /\ cur.mintPublicKey \in mints
          /\ cur.mintPublicKey \notin pools
          /\ pools' = pools \cup {cur.mintPublicKey}
          /\ ledgerTxs' = ledgerTxs \cup {Confirmed("createPool", cur.mintPublicKey, 0, cur.req)}
          /\ Set(p, [cur EXCEPT !.pc = "requeryPools"])
          /\ UNCHANGED <<mints, atas, bal>>
       \/ /\ IF onCreatePoolRejected = "done"
             THEN Return(p, cur, Failure("CREATE_POOL_FAILED"))
             ELSE Set(p, [cur EXCEPT !.pc = onCreatePoolRejected])
          /\ UNCHANGED ledgerVars
    /\ UNCHANGED <<env, rows, nextReq, storageFailed>>

\* Second pool query, after a confirmed creation.
requeryPools(p) ==
    /\ w[p].pc = "requeryPools"
    /\ Set(p, [w[p] EXCEPT !.pool = selectTokenPoolInfo(pools, w[p].mintPublicKey),
                           !.pc = "mintTo"])
    /\ UNCHANGED <<env, ledgerVars, rows, nextReq, storageFailed>>

\* The logs a rejected create-account + mint-to transaction may carry: the
\* ledger rejects it as already existing when the holding account exists.
RejectionLogs(mintKey) ==
    (IF mintKey \in atas THEN AlreadyExistsLogs ELSE OtherLogs) \cup {NoLogs, GetLogsThrows}

\* create holding account + mint-to, one transaction.
mintTo(p) ==
    /\ w[p].pc = "mintTo"
    /\ LET amount == clampAmount(w[p].dto.batchCount)
           cur == [w[p] EXCEPT !.amount = amount, !.trace = Append(@, "mintTo")]
           m == cur.mintPublicKey
       IN
       \/ /\ m \in mints
          /\ m \notin atas
          /\ atas' = atas \cup {m}
          /\ bal' = [bal EXCEPT ![m] = @ + amount]
          /\ ledgerTxs' = ledgerTxs \cup {Confirmed("mintTo", m, amount, cur.req)}
          /\ Set(p, [cur EXCEPT !.pc = "compress"])
          /\ UNCHANGED <<mints, pools>>
       \/ /\ \E logs \in RejectionLogs(m) :
                IF prepareIsFatal(logs)
                THEN Return(p, cur, Failure("PREPARE_ATA_OR_MINT_FAILED"))
                ELSE Set(p, [cur EXCEPT !.pc = "compress", !.prepareLogs = logs])
          /\ UNCHANGED ledgerVars
    /\ UNCHANGED <<env, rows, nextReq, storageFailed>>

\* Variant: a rejected compress is swallowed and the request goes on.
onCompressRejected_goesOn == "memo"

\* Variant: a rejected compress is submitted again.
onCompressRejected_retries == "compress"

\* What the catch block of compress does with a rejection: the position the
\* request goes to ("done" = return COMPRESS_TX_FAILED).
onCompressRejected == "done"

\* compress(...): confirmed only if the pool and the units are there.
compress(p) ==
    /\ w[p].pc = "compress"
    /\ LET cur == [w[p] EXCEPT !.trace = Append(@, "compress")]
           m == cur.mintPublicKey
       IN
       \/ /\ cur.pool # NoPool
          /\ m \in pools
          /\ m \in atas
          /\ bal[m] >= cur.amount
          /\ bal' = [bal EXCEPT ![m] = @ - cur.amount]
          /\ ledgerTxs' = ledgerTxs \cup {Confirmed("compress", m, cur.amount, cur.req)}
          /\ Set(p, [cur EXCEPT !.compressedTxId = TxSignatureOf("compress", cur.req),
                                !.pc = "memo"])
          /\ UNCHANGED <<mints, pools, atas>>
       \/ /\ IF onCompressRejected = "done"
             THEN Return(p, cur, Failure("COMPRESS_TX_FAILED"))
             ELSE Set(p, [cur EXCEPT !.pc = onCompressRejected])
          /\ UNCHANGED ledgerVars
    /\ UNCHANGED <<env, rows, nextReq, storageFailed>>

\* Variant: a rejected memo ends the request.
onMemoRejected_stops == "done"

\* What the catch block of the memo does with a rejection: the position the
\* request goes to (`catch (_) {}`: on to the storage calls).
onMemoRejected == "ensureTable"

\* Best-effort memo: confirmed or not, the request goes on.
memo(p) ==
    /\ w[p].pc = "memo"
    /\ LET cur == [w[p] EXCEPT !.trace = Append(@, "memo")] IN
       \/ /\ ledgerTxs' = ledgerTxs \cup {Confirmed("memo", cur.mintPublicKey, 0, cur.req)}
          /\ Set(p, [cur EXCEPT !.pc = "ensureTable"])
          /\ UNCHANGED <<mints, pools, atas, bal>>
       \/ /\ Set(p, [cur EXCEPT !.pc = onMemoRejected])
          /\ UNCHANGED ledgerVars
    /\ UNCHANGED <<env, rows, nextReq, storageFailed>>

\* CREATE TABLE IF NOT EXISTS.
ensureTable(p) ==
    /\ w[p].pc = "ensureTable"
    /\ Set(p, [w[p] EXCEPT !.pc = "insert"])
    /\ UNCHANGED <<env, ledgerVars, rows, nextReq, storageFailed>>

\* Variant: a table with a unique tx_signature (ON CONFLICT DO NOTHING).
insertRow_unique(table, row) ==
    IF \E i \in 1..Len(table) : table[i].tx_signature = row.tx_signature
    THEN table ELSE Append(table, row)

\* INSERT INTO runtime_proofs: the table has no unique column but the serial
\* id, the row is appended.
insertRow(table, row) == Append(table, row)

\* INSERT INTO runtime_proofs, then return the success payload.
insert(p) ==
    /\ w[p].pc = "insert"
    /\ rows' = insertRow(rows, ProofRow(w[p], Len(rows) + 1))
    /\ Return(p, [w[p] EXCEPT !.trace = Append(@, "persist")], SuccessResult(w[p]))
    /\ UNCHANGED <<env, ledgerVars, nextReq, storageFailed>>

\* Awaited calls outside any try block: when one throws, initAndMint throws
\* and the controller answers INTERNAL.
ThrowPoints ==
    {"confirmTx", "getStateTreeInfos", "sendMintTx", "getTokenPoolInfos",
     "createTokenPool", "requeryPools", "ensureTable", "insert"}
StoragePoints == {"ensureTable", "insert"}

Throw(p) ==
    /\ w[p].pc \in ThrowPoints
    /\ \E msg \in (IF w[p].pc \in StoragePoints THEN StoreMessages ELSE LedgerMessages) :
         Return(p, w[p], Internal(msg))
    /\ storageFailed' = IF w[p].pc \in StoragePoints
                        THEN storageFailed \cup {w[p].req} ELSE storageFailed
    /\ UNCHANGED <<env, ledgerVars, rows, nextReq>>

Next ==
    \E p \in Workers :
        \/ Start(p)
        \/ confirmTx(p)
        \/ getStateTreeInfos(p)
        \/ sendMintTx(p)
        \/ getTokenPoolInfos(p)
        \/ createTokenPool(p)
        \/ requeryPools(p)
        \/ mintTo(p)
        \/ compress(p)
        \/ memo(p)
        \/ ensureTable(p)
        \/ insert(p)
        \/ Throw(p)

Spec == Init /\ [][Next]_vars

\* ------------------------------------------------ one request at a time
\* The same handler with one worker and a wider choice of bodies: every
\* kind of body the controller tells apart, and batchCount values on both
\* sides of the clamp.
WideBatchCounts == {{}, {0 - 5}, {0}, {1}, {2}, {50}, {51}, {1000}}
ValidDtos ==
    [txSignature : {SigOnLedger},
     txBytesBase58 : {<<"2", "z">>},
     runtimeProofHash : {recomputeRuntimeHash(<<115>>, 7, EmptyString)},
     timestamp : Timestamps,
     runtimeId : {Undefined},
     userId : UserIds,
     batchCount : WideBatchCounts]
SampleDto == CHOOSE d \in ValidDtos : d.batchCount = {}
MalformedBodies ==
    [kind : {"null", "string"}, absent : {{}}, dto : {NoDto}]
      \cup [kind : {"object"}, absent : (SUBSET RequiredFieldSet) \ {{}}, dto : {SampleDto}]
SeqBodies == ObjectBodies(InitProofDto \cup ValidDtos) \cup MalformedBodies
SeqWorker == 1

SeqStart == init(SeqWorker, SeqBodies)

\* The steps of the call of worker p once it has started.
Run(p) ==
    \/ confirmTx(p)
    \/ getStateTreeInfos(p)
    \/ sendMintTx(p)
    \/ getTokenPoolInfos(p)
    \/ createTokenPool(p)
    \/ requeryPools(p)
    \/ mintTo(p)
    \/ compress(p)
    \/ memo(p)
    \/ ensureTable(p)
    \/ insert(p)
    \/ Throw(p)

SeqNext == SeqStart \/ Run(SeqWorker)

SeqSpec == Init /\ [][SeqNext]_vars

\* Every call the handler awaits eventually returns or fails.
FairSeqSpec == SeqSpec /\ WF_vars(Run(SeqWorker))

\* -------------------------------------------------- POST /proofs/retrieve
RetrieveLimit == 200
MinWalletLength == 20

\* Wallets: with 44 characters, with exactly 20, and with 19.
WalletA == "7xKXtg2CW87d97TXJSDpbD5jBkheTqA83TZRuJosgAsU"
WalletB == "9WzDXwBbmkg8ZTbNMqUxvQRAyrZzDsGYdLVL9zYtAWWM"
Wallet20 == "AAAAAAAAAAAAAAAAAAAA"
Wallet19 == "AAAAAAAAAAAAAAAAAAA"

\* A body of POST /proofs/retrieve: null, an object without wallet, an
\* object whose wallet is a number, or an object whose wallet is a string.
RetrieveBodies ==
    [kind : {"null", "absent", "number"}, wallet : {""}]
      \cup [kind : {"string"}, wallet : {"", Wallet19, Wallet20, WalletA, WalletB}]

\* Variant: the length of the wallet is not looked at.
validateWallet_noLength(body) ==
    IF body.kind # "string" \/ body.wallet = "" THEN "INVALID_WALLET" ELSE "OK"

\* !wallet || typeof wallet !== "string" || wallet.length < 20
validateWallet(body) ==
    IF body.kind # "string" \/ body.wallet = "" \/ Len(body.wallet) < MinWalletLength
    THEN "INVALID_WALLET" ELSE "OK"

\* The columns the SELECT returns, under their aliases.
SelectedColumns(row) ==
    [txSignature |-> row.tx_signature,
     txBytesBase58 |-> row.tx_bytes_base58,
     runtimeProofHash |-> row.runtime_proof_hash,
     userId |-> row.user_id,
     runtimeId |-> row.runtime_id,
     timestamp |-> row.timestamp_ms,
     mint |-> row.mint_address,
     mintTxId |-> row.mint_tx_id,
     compressedTxId |-> row.compressed_tx_id,
     chain |-> row.chain,
     createdAt |-> row.created_at]

\* The order ORDER BY leaves open: rows with equal created_at come in the
\* order of the table or against it.
TieOrders == {"physical", "reverse"}

\* Variant: ORDER BY created_at ASC.
retrieveProofsByUser_oldestFirst(table, userId, tieOrder) ==
    LET matching == {i \in 1..Len(table) : table[i].user_id = userId}
        Before(j, i) ==
            \/ table[j].created_at < table[i].created_at
            \/ /\ table[j].created_at = table[i].created_at
               /\ IF tieOrder = "physical" THEN j < i ELSE j > i
        rankOf == [i \in matching |-> Cardinality({j \in matching : Before(j, i)}) + 1]
        n == Min(Cardinality(matching), RetrieveLimit)
    IN  [ok |-> TRUE, error |-> "",
         proofs |-> [k \in 1..n |->
                       SelectedColumns(table[CHOOSE i \in matching : rankOf[i] = k])]]

\* SELECT ... FROM runtime_proofs WHERE user_id = $1
\* ORDER BY created_at DESC LIMIT 200, returned as {ok: true, proofs}.
retrieveProofsByUser(table, userId, tieOrder) ==
    LET matching == {i \in 1..Len(table) : table[i].user_id = userId}
        Before(j, i) ==
            \/ table[j].created_at > table[i].created_at
            \/ /\ table[j].created_at = table[i].created_at
               /\ IF tieOrder = "physical" THEN j < i ELSE j > i
        rankOf == [i \in matching |-> Cardinality({j \in matching : Before(j, i)}) + 1]
        n == Min(Cardinality(matching), RetrieveLimit)
    IN  [ok |-> TRUE, error |-> "",
         proofs |-> [k \in 1..n |->
                       SelectedColumns(table[CHOOSE i \in matching : rankOf[i] = k])]]

\* ProofsController.retrieve receives a body: INVALID_WALLET, or the call
\* of retrieveProofsByUser.
retrieve(p) ==
    /\ w[p].pc \in {"idle", "done"}
    /\ nextReq < MaxRequests
    /\ \E b \in RetrieveBodies :
         LET cur == [IdleWorker EXCEPT !.req = nextReq + 1, !.body = b] IN
         IF validateWallet(b) # "OK"
         THEN Return(p, cur, Failure(validateWallet(b)))
         ELSE Set(p, [cur EXCEPT !.pc = "retrieveProofsByUser"])
    /\ nextReq' = nextReq + 1
    /\ UNCHANGED <<env, ledgerVars, rows, storageFailed>>

\* ensureTable (CREATE ... IF NOT EXISTS) and the SELECT both return.
runQuery(p) ==
    /\ w[p].pc = "retrieveProofsByUser"
    /\ \E tieOrder \in TieOrders :
         Return(p, [w[p] EXCEPT !.trace = Append(@, "select")],
                retrieveProofsByUser(rows, w[p].body.wallet, tieOrder))
    /\ UNCHANGED <<env, ledgerVars, rows, nextReq, storageFailed>>

\* ensureTable or the SELECT throws: the controller answers INTERNAL.
queryThrows(p) ==
    /\ w[p].pc = "retrieveProofsByUser"
    /\ \E msg \in StoreMessages :
         Return(p, [w[p] EXCEPT !.trace = Append(@, "select")], Internal(msg))
    /\ storageFailed' = storageFailed \cup {w[p].req}
    /\ UNCHANGED <<env, ledgerVars, rows, nextReq>>

\* Tables the queries run on: every table of up to MaxSmallRows rows of two
\* users with created_at in any order (equal ones included), and tables
\* around the limit with created_at in a scrambled order.
MaxSmallRows == 3
MaxCreatedAt == 3
TableUsers == {WalletA, WalletB}
StoredRow(i, user, created) ==
    [ProofRow([IdleWorker EXCEPT !.req = i,
                                 !.dto = [SampleDto EXCEPT !.userId = user],
                                 !.mintPublicKey = MasterMint,
                                 !.compressedTxId = TxSignatureOf("compress", i)], i)
        EXCEPT !.created_at = created]
SmallTables ==
    UNION {{[i \in 1..n |-> StoredRow(i, f[i][1], f[i][2])] :
               f \in [1..n -> TableUsers \X (1..MaxCreatedAt)]} : n \in 0..MaxSmallRows}
BigSizes == {200, 201, 255}
BigTable(n, every) ==
    [i \in 1..n |-> StoredRow(i, IF i % every = 0 THEN WalletB ELSE WalletA,
                              ((i * 37) % 257) + 1)]
BigTables == {BigTable(n, every) : n \in BigSizes, every \in {5, 256}}
Tables == SmallTables \cup BigTables

RetrieveInit ==
    /\ env = [payer |-> TRUE, masterMint |-> TRUE, mintAuthority |-> TRUE]
    /\ w = [p \in Workers |-> IdleWorker]
    /\ mints = {MasterMint}
    /\ pools = {}
    /\ atas = {}
    /\ bal = [m \in MintAddresses |-> 0]
    /\ ledgerTxs = {}
    /\ rows \in Tables
    /\ nextReq = 0
    /\ storageFailed = {}

RetrieveNext == retrieve(SeqWorker) \/ runQuery(SeqWorker) \/ queryThrows(SeqWorker)

RetrieveSpec == RetrieveInit /\ [][RetrieveNext]_vars


\* ============================================================== properties
Requests == 1..nextReq
RowsOf(r) == {i \in 1..Len(rows) : rows[i].req = r}
HasRow(r) == RowsOf(r) # {}
CompressConfirmed(r) == \E t \in ledgerTxs : t.kind = "compress" /\ t.req = r
Steps(p) == {w[p].trace[i] : i \in 1..Len(w[p].trace)}
SubmissionSteps == {"mintTx", "createPool", "mintTo", "compress", "memo"}
Finished(p) == w[p].pc = "done"
ErrorOf(p) == w[p].result.error

\* The fingerprint of the data model: Hash(txBytes || "|ts:" || decimal
\* timestamp || "|rid:" || runtimeId, or nothing when it is absent).
Fingerprint(txBytes, timestamp, runtimeId) ==
    [sha256 |-> txBytes \o <<124, 116, 115, 58>> \o NatDigits(timestamp)
                  \o <<124, 114, 105, 100, 58>>
                  \o (IF runtimeId = Undefined THEN <<>> ELSE runtimeId)]
ClaimMatches(d) ==
    /\ B58Valid(d.txBytesBase58)
    /\ d.runtimeProofHash = Fingerprint(bs58decode(d.txBytesBase58), d.timestamp, d.runtimeId)
ClaimDiffers(d) ==
    /\ B58Valid(d.txBytesBase58)
    /\ d.runtimeProofHash # Fingerprint(bs58decode(d.txBytesBase58), d.timestamp, d.runtimeId)

\* C1 (as claimed): in every reachable state a request has a row in
\* runtime_proofs if and only if its compression transaction was confirmed.
C1_RowIffCompressed ==
    \A r \in Requests : HasRow(r) <=> CompressConfirmed(r)

\* C1 (amended): a request has a row only if its compression was confirmed,
\* it has at most one, every request that returned ok:true has its row, and a
\* confirmed compression is without a row only while its request has not yet
\* run the insert or when ensureTable / the insert threw.
C1_RowOnlyIfCompressed ==
    /\ \A r \in Requests :
         /\ HasRow(r) => CompressConfirmed(r)
         /\ Cardinality(RowsOf(r)) <= 1
         /\ (CompressConfirmed(r) /\ ~HasRow(r)) =>
              \/ r \in storageFailed
              \/ \E p \in Workers :
                   w[p].req = r /\ w[p].pc \in {"memo", "ensureTable", "insert"}
    /\ \A p \in Workers : w[p].result.ok => HasRow(w[p].req)

\* C1 witness: one request persisted its row, another one's compression was
\* confirmed and its storage call threw, leaving no row.
C1_Witness ==
    /\ \E r \in Requests : HasRow(r)
    /\ \E r \in storageFailed : CompressConfirmed(r) /\ ~HasRow(r)

StepRank(name) ==
    CASE name = "readTx" -> 1 [] name = "decode" -> 2 [] name = "hash" -> 3
      [] name = "mintTx" -> 4 [] name = "createPool" -> 5 [] name = "mintTo" -> 6
      [] name = "compress" -> 7 [] name = "memo" -> 8 [] name = "persist" -> 9

C3_LoserFindsWinnersPool ==
    [][\A p \in Workers :
          (w[p].pc = "createTokenPool" /\ w[p].mintPublicKey \in pools)
             => w'[p].result.error # "CREATE_POOL_FAILED"]_vars

\* C4: a request goes on to compress after a rejected create-account +
\* mint-to transaction only if the rejection carried the diagnostics of the
\* already-exists class.
C4_OnlyAlreadyExistsTolerated ==
    \A p \in Workers :
        w[p].prepareLogs # "" =>
            w[p].prepareLogs \in
                {LogAlreadyInUse, LogZeroCode, LogAlreadyInitialized}

RowReflectsLedger(row) ==
    /\ \E t \in ledgerTxs :
         t.sig = row.compressed_tx_id /\ t.kind = "compress" /\ t.mint = row.mint_address
    /\ row.mint_address \in mints
    /\ row.mint_tx_id # <<>> =>
         \E t \in ledgerTxs :
            t.sig = row.mint_tx_id /\ t.kind = "createMint" /\ t.mint = row.mint_address

\* C5: every row names a compression confirmed on the ledger for its mint, a
\* mint that exists, and (when mint_tx_id is not empty) the confirmed
\* transaction that created that mint; and no step deletes or changes a row
\* (the table is empty at the start, so every state with rows follows a step).
AllRowsReflectLedger == \A i \in 1..Len(rows) : RowReflectsLedger(rows[i])
C5_RowsReflectLedger ==
    [][/\ AllRowsReflectLedger'
       /\ Len(rows') >= Len(rows)
       /\ \A i \in 1..Len(rows) : rows'[i] = rows[i]]_vars

\* C5 witness: two rows, one of a retry of the same txSignature.
C5_Witness ==
    /\ Len(rows) = 2
    /\ rows[1].tx_signature = rows[2].tx_signature
    /\ rows[1].mint_tx_id # <<>>


Started(p) == w[p].pc # "idle"
LedgerTxsOf(r) == {t \in ledgerTxs : t.req = r}
NothingAnchored(p) ==
    /\ Steps(p) \cap SubmissionSteps = {}
    /\ LedgerTxsOf(w[p].req) = {}
    /\ ~HasRow(w[p].req)

\* C6: a request gets past hash verification exactly when its claimed hash
\* is the fingerprint of its decoded bytes, timestamp and runtimeId (nothing
\* for an absent runtimeId); a request whose hash differs submits nothing to
\* the ledger and gets no row; every row carries a matching fingerprint.
C6_HashChecked ==
    /\ \A p \in Workers : Started(p) =>
         /\ w[p].hashVerified => ClaimMatches(w[p].dto)
         /\ ErrorOf(p) = "RUNTIME_HASH_MISMATCH" => ClaimDiffers(w[p].dto)
         /\ ~ClaimMatches(w[p].dto) => NothingAnchored(p)
    /\ \A i \in 1..Len(rows) :
         /\ B58Valid(rows[i].tx_bytes_base58)
         /\ rows[i].runtime_proof_hash =
              Fingerprint(bs58decode(rows[i].tx_bytes_base58), rows[i].timestamp_ms,
                          rows[i].runtime_id)

\* C6 witness: a request without runtimeId passed the hash check and has a
\* row, and another request was rejected for its hash.
C6_Witness ==
    /\ \E p \in Workers :
         /\ Started(p)
         /\ w[p].dto.runtimeId = Undefined
         /\ w[p].hashVerified
         /\ HasRow(w[p].req)
    /\ \E p \in Workers : ErrorOf(p) = "RUNTIME_HASH_MISMATCH"

\* C7: for every row, the bytes that were hashed are the bytes of the ledger
\* transaction the reader returned for the row's txSignature.
C7_HashedBytesAreLedgerBytes ==
    \A i \in 1..Len(rows) :
        bs58decode(rows[i].tx_bytes_base58) = getTransaction(rows[i].tx_signature)

\* C8: a request whose txSignature the ledger reader does not know returns
\* {ok:false, error:"TX_NOT_FOUND"} after one read, and nothing is submitted
\* or persisted for it.
C8_UnknownSignature ==
    \A p \in Workers :
        (Started(p) /\ w[p].reads > 0 /\ w[p].dto.txSignature \notin LedgerSignatures) =>
            /\ Finished(p)
            /\ w[p].result = [ok |-> FALSE, error |-> "TX_NOT_FOUND"]
            /\ w[p].reads = 1
            /\ NothingAnchored(p)

\* C8 witness: a finished request with an unknown txSignature whose hash
\* matches its bytes.
C8_Witness ==
    \E p \in Workers :
        /\ Finished(p)
        /\ w[p].reads = 1
        /\ w[p].dto.txSignature = SigUnknown
        /\ ClaimMatches(w[p].dto)
        /\ ErrorOf(p) = "TX_NOT_FOUND"

\* C9: a request whose transaction is on the ledger and whose claimed hash
\* differs from the recomputed one returns
\* {ok:false, error:"RUNTIME_HASH_MISMATCH"}, and nothing is persisted.
C9_HashMismatch ==
    \A p \in Workers :
        (Started(p) /\ w[p].reads > 0 /\ w[p].dto.txSignature \in LedgerSignatures
           /\ ClaimDiffers(w[p].dto)) =>
            /\ Finished(p)
            /\ w[p].result = [ok |-> FALSE, error |-> "RUNTIME_HASH_MISMATCH"]
            /\ NothingAnchored(p)

\* C9 witness: a finished request for the transaction on the ledger, with the
\* ledger's bytes and the fingerprint of other bytes.
C9_Witness ==
    \E p \in Workers :
        /\ Finished(p)
        /\ w[p].dto.txSignature = SigOnLedger
        /\ w[p].txBytes = LedgerTxBytes
        /\ ClaimDiffers(w[p].dto)
        /\ ErrorOf(p) = "RUNTIME_HASH_MISMATCH"

\* C10: with a master mint configured and no mint-authority credential, a
\* request that passed the transaction and hash checks returns
\* MINT_AUTHORITY_MISSING (unless the state tree read threw), and no request
\* submits anything to the ledger or persists a row.
C10_MintAuthorityMissing ==
    (env.masterMint /\ ~env.mintAuthority) =>
        /\ ledgerTxs = {}
        /\ rows = <<>>
        /\ \A p \in Workers : Started(p) =>
             /\ Steps(p) \cap SubmissionSteps = {}
             /\ w[p].hashVerified => w[p].pc \in {"getStateTreeInfos", "done"}
             /\ (w[p].hashVerified /\ Finished(p)) =>
                  \/ w[p].result = [ok |-> FALSE, error |-> "MINT_AUTHORITY_MISSING"]
                  \/ ErrorOf(p) = "INTERNAL" /\ w[p].mintPublicKey = NoPool

\* C10 witness: a request ended in MINT_AUTHORITY_MISSING.
C10_Witness ==
    \E p \in Workers :
        /\ env.masterMint
        /\ w[p].hashVerified
        /\ w[p].mintPublicKey = MasterMint
        /\ ErrorOf(p) = "MINT_AUTHORITY_MISSING"

\* ------------------------------------------------------------ scenario A
KindsOf(r) == {t.kind : t \in LedgerTxsOf(r)}
AllKinds == {"createMint", "createPool", "mintTo", "compress", "memo"}

\* Worker p finished a request of scenario A: no master mint, the
\* transaction exists, the hash is correct, and every ledger and storage
\* call of the request succeeded.
ScenarioA(p) ==
    /\ Finished(p)
    /\ validateBody(w[p].body) = "OK"
    /\ ~env.masterMint
    /\ loadPayer(env)
    /\ w[p].dto.txSignature \in LedgerSignatures
    /\ ClaimMatches(w[p].dto)
    /\ KindsOf(w[p].req) = AllKinds
    /\ w[p].req \notin storageFailed
    /\ ErrorOf(p) # "INTERNAL"

\* What scenario A promises but for the row's request fields.
ScenarioAResult(p) ==
    LET res == w[p].result
        r == w[p].req
    IN  /\ res.ok
        /\ res.mint = GeneratedMint(r)
        /\ res.mint # MasterMint
        /\ res.mintTxId # EmptyString
        /\ res.mintTxId = TxSignatureOf("createMint", r)
        /\ res.compressedTxId # EmptyString
        /\ res.compressedTxId = TxSignatureOf("compress", r)
        /\ Cardinality(RowsOf(r)) = 1
        /\ \A i \in RowsOf(r) :
             /\ rows[i].mint_address = res.mint
             /\ rows[i].mint_tx_id = res.mintTxId
             /\ rows[i].compressed_tx_id = res.compressedTxId
             /\ rows[i].chain = res.metadata.chain

\* In a request with its own mint no success branch is ever closed: each
\* ledger call of the request can be confirmed when the request gets to it.
SuccessOpen(p) ==
    LET m == w[p].mintPublicKey IN
    ~env.masterMint =>
        /\ w[p].pc = "sendMintTx" => m \notin mints
        /\ w[p].pc = "createTokenPool" => m \in mints /\ m \notin pools
        /\ w[p].pc = "mintTo" => m \in mints /\ m \notin atas /\ w[p].pool = m
        /\ (w[p].pc = "compress" /\ w[p].prepareLogs = "") =>
               w[p].pool = m /\ m \in pools /\ m \in atas /\ bal[m] >= w[p].amount

\* C11 (as claimed): in scenario A the request returns ok:true with its own
\* mint, a non-empty mintTxId and compressedTxId, and exactly one row whose
\* mint_address, mint_tx_id, compressed_tx_id and request fields equal the
\* returned values.
C11_RowEqualsReturned ==
    \A p \in Workers : ScenarioA(p) =>
        /\ ScenarioAResult(p)
        /\ \A i \in RowsOf(w[p].req) :
             /\ rows[i].tx_signature = w[p].result.metadata.txHash
             /\ rows[i].runtime_proof_hash = w[p].result.metadata.runtimeProofHash
             /\ rows[i].user_id = w[p].result.metadata.userId
             /\ rows[i].timestamp_ms = w[p].result.metadata.timestamp
             /\ rows[i].runtime_id = w[p].result.metadata.runtimeId

\* C11 (amended): as above, but the row's runtime_id is the request's
\* runtimeId, null when it is absent, while the returned metadata reports an
\* absent runtimeId as the empty string: the two are equal exactly when the
\* request carries a runtimeId. Every success branch of such a request is
\* open when the request gets to it.
C11_ScenarioA ==
    \A p \in Workers :
        /\ SuccessOpen(p)
        /\ ScenarioA(p) =>
            /\ ScenarioAResult(p)
            /\ \A i \in RowsOf(w[p].req) :
                 /\ rows[i].tx_signature = w[p].result.metadata.txHash
                 /\ rows[i].runtime_proof_hash = w[p].result.metadata.runtimeProofHash
                 /\ rows[i].user_id = w[p].result.metadata.userId
                 /\ rows[i].timestamp_ms = w[p].result.metadata.timestamp
                 /\ rows[i].runtime_id = w[p].dto.runtimeId
                 /\ w[p].result.metadata.runtimeId = Coalesce(w[p].dto.runtimeId, EmptyString)
                 /\ (rows[i].runtime_id = w[p].result.metadata.runtimeId)
                      <=> (w[p].dto.runtimeId # Undefined)

\* Scenario A ran twice: once without a runtimeId, once with one.
C11_Witness ==
    /\ \A p \in Workers : ScenarioA(p) /\ w[p].result.ok
    /\ \E p \in Workers : w[p].dto.runtimeId = Undefined
    /\ \E p \in Workers : w[p].dto.runtimeId # Undefined

\* ------------------------------------------------- adopted or created mint
CreateMintTxsOf(r) == {t \in LedgerTxsOf(r) : t.kind = "createMint"}

\* C12: with a master mint configured a request submits no mint-creation
\* transaction, and the returned and persisted mint is the master mint with
\* an empty mintTxId; with none configured the request creates its own mint
\* and a successful one returns that mint and the signature of its creation.
\* In every row mint_tx_id is empty exactly when the master mint was used.
C12_MintByConfiguration ==
    /\ \A p \in Workers : Started(p) =>
          LET r == w[p].req
              res == w[p].result
          IN  IF env.masterMint
              THEN /\ "mintTx" \notin Steps(p)
                   /\ CreateMintTxsOf(r) = {}
                   /\ w[p].mintTxId = Undefined
                   /\ w[p].mintPublicKey \in {IdleWorker.mintPublicKey, MasterMint}
                   /\ res.ok => res.mint = MasterMint /\ res.mintTxId = EmptyString
              ELSE /\ w[p].mintPublicKey \in {IdleWorker.mintPublicKey, GeneratedMint(r)}
                   /\ GeneratedMint(r) # MasterMint
                   /\ \A q \in Workers \ {p} :
                        Started(q) => GeneratedMint(w[q].req) # GeneratedMint(r)
                   /\ w[p].pc \in {"getTokenPoolInfos", "createTokenPool", "requeryPools",
                                    "mintTo", "compress", "memo", "ensureTable", "insert"}
                         => /\ w[p].mintTxId = TxSignatureOf("createMint", r)
                            /\ \E t \in CreateMintTxsOf(r) : t.mint = GeneratedMint(r)
                   /\ res.ok => /\ res.mint = GeneratedMint(r)
                                /\ res.mintTxId # EmptyString
                                /\ res.mintTxId = TxSignatureOf("createMint", r)
                                /\ \E t \in CreateMintTxsOf(r) :
                                      t.sig = res.mintTxId /\ t.mint = res.mint
    /\ \A i \in 1..Len(rows) :
          /\ (rows[i].mint_tx_id = EmptyString) <=> (rows[i].mint_address = MasterMint)
          /\ (rows[i].mint_address = MasterMint) <=> env.masterMint
          /\ ~env.masterMint => rows[i].mint_address = GeneratedMint(rows[i].req)

\* A request that adopted the master mint succeeded and has its row.
C12_Witness ==
    /\ env.masterMint
    /\ \E p \in Workers :
         /\ w[p].result.ok
         /\ w[p].result.mint = MasterMint
         /\ w[p].result.mintTxId = EmptyString
         /\ \E i \in RowsOf(w[p].req) : rows[i].mint_tx_id = EmptyString

\* ------------------------------------------------ compress: surface and stop
RECURSIVE SumAmounts(_)
SumAmounts(txs) ==
    IF txs = {} THEN 0
    ELSE LET t == CHOOSE x \in txs : TRUE IN t.amount + SumAmounts(txs \ {t})
TxsOn(kind, m) == {t \in ledgerTxs : t.kind = kind /\ t.mint = m}
Occurrences(seq, x) == Cardinality({i \in 1..Len(seq) : seq[i] = x})

\* What holds in every state about compression.
CompressSurfaceAndStop ==
    /\ \A p \in Workers :
          /\ Occurrences(w[p].trace, "compress") <= 1
          /\ (Finished(p) /\ ErrorOf(p) = "COMPRESS_TX_FAILED") =>
                /\ Occurrences(w[p].trace, "compress") = 1
                /\ ~HasRow(w[p].req)
                /\ "memo" \notin Steps(p)
                /\ "persist" \notin Steps(p)
                /\ KindsOf(w[p].req) \cap {"compress", "memo"} = {}
                /\ "mintTx" \in Steps(p) => w[p].mintPublicKey \in mints
                /\ "mintTo" \in KindsOf(w[p].req) => w[p].mintPublicKey \in atas
                /\ "createPool" \in KindsOf(w[p].req) => w[p].mintPublicKey \in pools
    \* every unit minted is in the holding account or was compressed
    /\ \A m \in MintAddresses :
          bal[m] + SumAmounts(TxsOn("compress", m)) = SumAmounts(TxsOn("mintTo", m))

\* What a step of worker p at compress does.
CompressStep(p) ==
    (w[p].pc = "compress" /\ w'[p] # w[p]) =>
        IF \E t \in ledgerTxs' \ ledgerTxs : t.kind = "compress" /\ t.req = w[p].req
        THEN w'[p].pc = "memo"
        ELSE /\ w'[p].pc = "done"
             /\ w'[p].result = Failure("COMPRESS_TX_FAILED")
             /\ UNCHANGED <<ledgerVars, rows>>

\* C13: within one request compress is submitted at most once; if it is
\* rejected the request ends in COMPRESS_TX_FAILED with no row and no memo,
\* the rejection step changes nothing on the ledger, and no step ever
\* removes a mint, a pool, a holding account or a confirmed transaction or
\* burns a unit.
C13_CompressSurfaceAndStop ==
    [][/\ CompressSurfaceAndStop'
       /\ \A p \in Workers : CompressStep(p)
       /\ mints \subseteq mints'
       /\ pools \subseteq pools'
       /\ atas \subseteq atas'
       /\ ledgerTxs \subseteq ledgerTxs']_vars

\* A request that created its mint and pool and minted its units ended in
\* COMPRESS_TX_FAILED; the units are in the holding account.
C13_Witness ==
    \E p \in Workers :
        /\ Finished(p)
        /\ ErrorOf(p) = "COMPRESS_TX_FAILED"
        /\ KindsOf(w[p].req) = {"createMint", "createPool", "mintTo"}
        /\ bal[w[p].mintPublicKey] = w[p].amount
        /\ w[p].amount = 2

\* ------------------------------------------------------- best-effort memo
MemoConfirmed(r) == "memo" \in KindsOf(r)

\* The payload and the row of a request as its inputs and its confirmed
\* mint-creation and compression determine them; the memo has no part.
ExpectedResult(p) ==
    LET r == w[p].req
        c == CHOOSE t \in LedgerTxsOf(r) : t.kind = "compress"
    IN  [ok |-> TRUE, error |-> "",
         mint |-> c.mint,
         mintTxId |-> IF CreateMintTxsOf(r) = {} THEN EmptyString
                      ELSE (CHOOSE t \in CreateMintTxsOf(r) : TRUE).sig,
         compressedTxId |-> c.sig,
         metadata |-> [txHash |-> w[p].dto.txSignature,
                       runtimeProofHash |-> w[p].dto.runtimeProofHash,
                       userId |-> w[p].dto.userId,
                       timestamp |-> w[p].dto.timestamp,
                       runtimeId |-> IF w[p].dto.runtimeId = Undefined THEN EmptyString
                                     ELSE w[p].dto.runtimeId,
                       chain |-> "solana"]]
ExpectedRow(p, i) ==
    LET e == ExpectedResult(p) IN
    [id |-> i,
     tx_signature |-> w[p].dto.txSignature,
     tx_bytes_base58 |-> w[p].dto.txBytesBase58,
     runtime_proof_hash |-> w[p].dto.runtimeProofHash,
     user_id |-> w[p].dto.userId,
     runtime_id |-> w[p].dto.runtimeId,
     timestamp_ms |-> w[p].dto.timestamp,
     mint_address |-> e.mint,
     mint_tx_id |-> e.mintTxId,
     compressed_tx_id |-> e.compressedTxId,
     chain |-> "solana",
     created_at |-> i,
     req |-> w[p].req]

MemoIndependent ==
    \A p \in Workers : (Finished(p) /\ CompressConfirmed(w[p].req)) =>
        \/ /\ w[p].result = ExpectedResult(p)
           /\ \E i \in 1..Len(rows) : RowsOf(w[p].req) = {i} /\ rows[i] = ExpectedRow(p, i)
        \/ /\ w[p].req \in storageFailed
           /\ ErrorOf(p) = "INTERNAL"
           /\ w[p].result.details \in StoreMessages
           /\ ~HasRow(w[p].req)

\* What a step of worker p at the memo does: whether the memo is confirmed
\* or not, the worker goes on to the storage calls in the same state.
MemoStep(p) ==
    (w[p].pc = "memo" /\ w'[p] # w[p]) =>
        /\ w'[p] = [w[p] EXCEPT !.pc = "ensureTable", !.trace = Append(@, "memo")]
        /\ rows' = rows

\* C14: for a request whose compression was confirmed, the returned result
\* and the persisted row are determined without the memo: they are the same
\* whether the memo submission is confirmed or fails, the step after the
\* memo is the storage call in both cases, and the only failure such a
\* request can report is one of the storage calls.
C14_MemoBestEffort ==
    [][MemoIndependent' /\ \A p \in Workers : MemoStep(p)]_vars

\* Two requests for the same input succeeded, one with its memo confirmed
\* and one without.
C14_Witness ==
    /\ \A p \in Workers : Finished(p) /\ w[p].result.ok /\ HasRow(w[p].req)
    /\ w[1].dto = w[2].dto
    /\ MemoConfirmed(w[1].req)
    /\ ~MemoConfirmed(w[2].req)

\* ------------------------------------------------------------ batchCount
\* The amount the data model gives a batchCount: clamped to [1, 50], 1 when
\* it is absent.
EffectiveAmount(batchCount) ==
    IF batchCount = {} THEN 1
    ELSE LET b == CHOOSE x \in batchCount : TRUE IN
         IF b < 1 THEN 1 ELSE IF b > 50 THEN 50 ELSE b

\* C15: the amount of a request is its batchCount clamped to [1, 50], 1 when
\* batchCount is absent (0 and -5 give 1, 50 gives 50, 51 and 1000 give 50);
\* the mint-to and the compress of the request carry that same amount.
C15_ClampedAmount ==
    /\ \A b \in (-60)..1001 : clampAmount({b}) = EffectiveAmount({b})
    /\ clampAmount({}) = 1
    /\ clampAmount({0}) = 1 /\ clampAmount({0 - 5}) = 1
    /\ clampAmount({50}) = 50 /\ clampAmount({51}) = 50 /\ clampAmount({1000}) = 50
    /\ \A p \in Workers : "mintTo" \in Steps(p) =>
          /\ w[p].amount = EffectiveAmount(w[p].dto.batchCount)
          /\ w[p].amount \in 1..50
          /\ \A t \in LedgerTxsOf(w[p].req) :
                t.kind \in {"mintTo", "compress"} => t.amount = w[p].amount

\* A request with batchCount 1000 minted and compressed 50 units, after
\* another request that minted and compressed 1 unit.
C15_Witness ==
    /\ w[SeqWorker].dto.batchCount = {1000}
    /\ w[SeqWorker].result.ok
    /\ \E t \in LedgerTxsOf(w[SeqWorker].req) : t.kind = "mintTo" /\ t.amount = 50
    /\ \E t \in LedgerTxsOf(w[SeqWorker].req) : t.kind = "compress" /\ t.amount = 50
    /\ \E t \in ledgerTxs : t.kind = "compress" /\ t.amount = 1 /\ t.req # w[SeqWorker].req

\* ------------------------------------------------------ pool provisioning
PastPoolStep == {"mintTo", "compress", "memo", "ensureTable", "insert"}

\* What holds of the pools in every state of requests run one after the
\* other.
OnePoolPerMint ==
    /\ \A m \in MintAddresses :
          Cardinality(TxsOn("createPool", m)) = IF m \in pools THEN 1 ELSE 0
    /\ \A p \in Workers :
          LET m == w[p].mintPublicKey IN
          /\ w[p].pc \in PastPoolStep \cup {"requeryPools"} => m \in pools
          /\ w[p].pc \in PastPoolStep => w[p].pool = m
          /\ w[p].pc = "createTokenPool" => m \notin pools
          /\ "createPool" \in Steps(p) => Occurrences(w[p].trace, "createPool") = 1
          /\ ErrorOf(p) = "CREATE_POOL_FAILED" => m \notin pools

\* What the pool step of worker p does: with a pool for the mint it goes on
\* with that pool and submits nothing; without one it goes to the creation.
PoolStep(p) ==
    LET m == w[p].mintPublicKey IN
    (w[p].pc = "getTokenPoolInfos" /\ w'[p] # w[p] /\ w'[p].pc # "done") =>
        /\ UNCHANGED ledgerVars
        /\ IF m \in pools
           THEN w'[p].pc = "mintTo" /\ w'[p].pool = m /\ w'[p].trace = w[p].trace
           ELSE w'[p].pc = "createTokenPool"

\* C16: when the pool step runs twice one after the other for the same
\* mint, there is exactly one pool and one pool-creation transaction for
\* the mint, the second run submits none, and both go on with that pool.
C16_PoolIdempotentInSequence ==
    [][OnePoolPerMint' /\ PoolStep(SeqWorker)]_vars

\* The second request on the master mint is past its pool step: it holds
\* the pool the first request created and submitted no creation.
C16_Witness ==
    /\ env.masterMint
    /\ w[SeqWorker].req = 2
    /\ w[SeqWorker].pc \in PastPoolStep
    /\ w[SeqWorker].pool = MasterMint
    /\ "createPool" \notin Steps(SeqWorker)
    /\ \E t \in TxsOn("createPool", MasterMint) : t.req = 1

\* -------------------------------------------------- no unique txSignature
RowsWith(sig) == {i \in 1..Len(rows) : rows[i].tx_signature = sig}
Persisted == {r \in Requests : HasRow(r)}
SignatureOf(r) == rows[CHOOSE i \in RowsOf(r) : TRUE].tx_signature
Signatures == LedgerSignatures \cup {SigUnknown}

RowPerPersistedRun ==
    /\ \A i, j \in 1..Len(rows) : rows[i].req = rows[j].req => i = j
    /\ \A p \in Workers : Started(p) => ("persist" \in Steps(p) <=> HasRow(w[p].req))
    /\ \A sig \in Signatures :
          Cardinality(RowsWith(sig)) = Cardinality({r \in Persisted : SignatureOf(r) = sig})

\* What the insert of worker p does: unless the query throws, it appends
\* the row of the request, whatever rows the table holds.
InsertStep(p) ==
    (w[p].pc = "insert" /\ w'[p] # w[p] /\ w'[p].result.ok) =>
        /\ Len(rows') = Len(rows) + 1
        /\ \A i \in 1..Len(rows) : rows'[i] = rows[i]
        /\ rows'[Len(rows')].tx_signature = w[p].dto.txSignature
        /\ rows'[Len(rows')].req = w[p].req

\* C17: the table does not deduplicate by tx_signature: every run that gets
\* to its insert after a confirmed compression appends its own row, also
\* when a row with the same tx_signature exists, so the rows of a
\* tx_signature are as many as the runs of it that persisted.
C17_NoDeduplication ==
    [][RowPerPersistedRun' /\ \A p \in Workers : InsertStep(p)]_vars

\* Two runs of the same request persisted: two rows with one tx_signature.
C17_Witness ==
    /\ Cardinality(RowsWith(SigOnLedger)) = 2
    /\ rows[1].req # rows[2].req
    /\ rows[1].compressed_tx_id # rows[2].compressed_tx_id
    /\ rows[1].runtime_proof_hash = rows[2].runtime_proof_hash

\* ------------------------------------------------------------ termination
InFlight(p) == w[p].pc \notin {"idle", "done"}
NamedErrors ==
    {"TX_NOT_FOUND", "INVALID_TX_BYTES_BASE58", "RUNTIME_HASH_MISMATCH",
     "MINT_AUTHORITY_MISSING", "MINT_TX_FAILED", "CREATE_POOL_FAILED",
     "PREPARE_ATA_OR_MINT_FAILED", "COMPRESS_TX_FAILED"}
BodyErrors == {"INVALID_BODY"} \cup {"MISSING_" \o f : f \in RequiredFieldSet}

\* The position of a request in the pipeline, as a number that every step
\* must raise.
PcRank(pc) ==
    CASE pc = "confirmTx" -> 1
      [] pc = "getStateTreeInfos" -> 2
      [] pc = "sendMintTx" -> 3
      [] pc = "getTokenPoolInfos" -> 4
      [] pc = "createTokenPool" -> 5
      [] pc = "requeryPools" -> 6
      [] pc = "mintTo" -> 7
      [] pc = "compress" -> 8
      [] pc = "memo" -> 9
      [] pc = "ensureTable" -> 10
      [] pc = "insert" -> 11
      [] pc = "done" -> 12
      [] OTHER -> 0

\* A finished request is in PERSISTED or carries one failure.
TerminalOutcome(p) ==
    Finished(p) =>
        IF w[p].result.ok
        THEN HasRow(w[p].req) /\ w[p].result.error = ""
        ELSE /\ ErrorOf(p) \in NamedErrors \cup BodyErrors \cup {"INTERNAL"}
             /\ ~HasRow(w[p].req)

\* A step of the request of worker p moves it forward; a finished request
\* does not move.
ForwardOnly(p) ==
    (w'[p].req = w[p].req /\ w'[p] # w[p]) =>
        /\ ~Finished(p)
        /\ PcRank(w'[p].pc) > PcRank(w[p].pc)
        /\ \A st \in SubmissionSteps \cup {"readTx", "persist"} :
              Occurrences(w'[p].trace, st) <= 1

\* C18: if every ledger and storage call returns or fails, a started
\* request ends; it ends in PERSISTED or with one failure (a named error
\* code or INTERNAL for an I/O failure); each of its steps moves it forward
\* (no step is run twice), and once finished it does not change.
C18_EveryRequestEnds ==
    /\ \A r \in 1..MaxRequests :
          (w[SeqWorker].req = r /\ InFlight(SeqWorker))
              ~> (w[SeqWorker].req = r /\ Finished(SeqWorker))
    /\ [][TerminalOutcome(SeqWorker)' /\ ForwardOnly(SeqWorker)]_vars

\* Requests ended in PERSISTED and in a failure.
C18_Witness ==
    /\ w[SeqWorker].req = 2
    /\ Finished(SeqWorker)
    /\ ErrorOf(SeqWorker) = "COMPRESS_TX_FAILED"
    /\ Len(rows) = 1

\* ------------------------------------------ storage failure after compress
StorageFailedAfterCompress(p) ==
    /\ Finished(p)
    /\ w[p].req \in storageFailed
    /\ CompressConfirmed(w[p].req)
FailedWithNothingAnchored(q) ==
    /\ Finished(q)
    /\ ~w[q].result.ok
    /\ NothingAnchored(q)

\* C19: when a storage call fails after the compression was confirmed, the
\* insert is not run again, the caller does not get ok:true, and the error
\* code the caller gets is not one that a failure with nothing anchored on
\* the ledger gives.
C19_StorageFailureDistinct ==
    /\ \A p \in Workers : StorageFailedAfterCompress(p) =>
          /\ ~w[p].result.ok
          /\ ~HasRow(w[p].req)
          /\ "persist" \notin Steps(p)
    /\ \A p, q \in Workers :
          (StorageFailedAfterCompress(p) /\ FailedWithNothingAnchored(q)) =>
              ErrorOf(p) # ErrorOf(q)

\* ------------------------------------------------------- body validation
\* The first of the required fields, in the order txSignature,
\* txBytesBase58, runtimeProofHash, timestamp, userId, that is undefined or
\* null in the body.
FirstMissing(absent) ==
    IF "txSignature" \in absent THEN "txSignature"
    ELSE IF "txBytesBase58" \in absent THEN "txBytesBase58"
    ELSE IF "runtimeProofHash" \in absent THEN "runtimeProofHash"
    ELSE IF "timestamp" \in absent THEN "timestamp"
    ELSE "userId"
Rejected(p) ==
    /\ Finished(p)
    /\ \/ w[p].body.kind # "object"
       \/ w[p].body.absent \cap RequiredFieldSet # {}
PipelineNotInvoked(p) ==
    /\ w[p].reads = 0
    /\ w[p].trace = <<>>
    /\ ~w[p].hashVerified
    /\ NothingAnchored(p)
    /\ w[p].req \notin storageFailed

BodyChecked ==
    \A p \in Workers : Started(p) =>
        /\ Rejected(p) =>
              /\ ErrorOf(p) = IF w[p].body.kind # "object" THEN "INVALID_BODY"
                               ELSE "MISSING_" \o FirstMissing(w[p].body.absent)
              /\ ~w[p].result.ok
              /\ PipelineNotInvoked(p)
        /\ ErrorOf(p) \in BodyErrors => Rejected(p)
        /\ (w[p].body.kind = "object" /\ w[p].body.absent \cap RequiredFieldSet = {})
              => w[p].pc # "idle" /\ ErrorOf(p) \notin BodyErrors

\* The step that receives a body the controller rejects touches neither
\* the ledger nor the table.
RejectStep(p) ==
    (w'[p].req # w[p].req /\ w'[p].result.error \in BodyErrors) =>
        UNCHANGED <<ledgerVars, rows, storageFailed>>

\* C20: a body that is null or not an object is rejected with INVALID_BODY,
\* a body in which a required field is undefined or null with MISSING_ and
\* the first such field in the order txSignature, txBytesBase58,
\* runtimeProofHash, timestamp, userId; in both cases initAndMint is not
\* called: no ledger call, no storage write.
C20_BodyValidation ==
    [][BodyChecked' /\ RejectStep(SeqWorker)]_vars

\* A body without runtimeProofHash and userId was answered
\* MISSING_runtimeProofHash; nothing is on the ledger or in the table.
C20_Witness ==
    /\ w[SeqWorker].req = 2
    /\ w[SeqWorker].body.kind = "object"
    /\ w[SeqWorker].body.absent = {"runtimeProofHash", "userId"}
    /\ ErrorOf(SeqWorker) = "MISSING_runtimeProofHash"
    /\ ledgerTxs = {}
    /\ rows = <<>>

\* -------------------------------------------------------------- retrieval
\* The rows of a user in the table, and those created after time c.
RowsOfUser(user) == {i \in 1..Len(rows) : rows[i].user_id = user}
NewerThan(user, c) == {i \in RowsOfUser(user) : rows[i].created_at > c}
Retrieved(p) == Finished(p) /\ w[p].result.ok /\ "select" \in Steps(p)

\* What a returned list is, for the wallet it was asked for.
NewestFirst(proofs, user) ==
    LET n == Len(proofs) IN
    /\ n = Min(Cardinality(RowsOfUser(user)), 200)
    /\ n <= 200
    /\ \A k \in 1..n :
          /\ proofs[k].userId = user
          /\ \E i \in RowsOfUser(user) :
                /\ proofs[k].compressedTxId = rows[i].compressed_tx_id
                /\ proofs[k].createdAt = rows[i].created_at
                /\ proofs[k].txSignature = rows[i].tx_signature
                /\ proofs[k].mint = rows[i].mint_address
    /\ \A k, l \in 1..n :
          /\ k < l => proofs[k].createdAt >= proofs[l].createdAt
          /\ k # l => proofs[k].compressedTxId # proofs[l].compressedTxId
    \* no row left out is newer than a row returned
    /\ n > 0 => Cardinality(NewerThan(user, proofs[n].createdAt)) < n
    /\ n > 0 => \A i \in RowsOfUser(user) :
                   rows[i].created_at > proofs[n].createdAt =>
                       \E k \in 1..n : proofs[k].compressedTxId = rows[i].compressed_tx_id

\* C21: retrieveProofsByUser returns rows of the given user only, newest
\* first by created_at, the 200 newest when the user has more than 200, and
\* no request to retrieve changes the table.
C21_NewestFirstCapped ==
    [][/\ \A p \in Workers :
            Retrieved(p)' => NewestFirst(w'[p].result.proofs, w'[p].body.wallet)
       /\ rows' = rows]_vars

\* A user with more than 200 rows, stored in another order than they were
\* created, got the 200 newest, the newest first.
C21_Witness ==
    /\ Retrieved(SeqWorker)
    /\ Cardinality(RowsOfUser(w[SeqWorker].body.wallet)) > 200
    /\ Len(rows) > Cardinality(RowsOfUser(w[SeqWorker].body.wallet))
    /\ Len(w[SeqWorker].result.proofs) = 200
    /\ \E i \in 1..(Len(rows) - 1) : rows[i].created_at > rows[i + 1].created_at
    /\ \E i \in 1..(Len(rows) - 1) : rows[i].created_at < rows[i + 1].created_at
    /\ w[SeqWorker].result.proofs[1].createdAt > w[SeqWorker].result.proofs[200].createdAt

\* ------------------------------------------------------ wallet validation
\* The wallet of the body is absent, not a string, or shorter than 20.
WalletRejected(body) ==
    \/ body.kind \in {"null", "absent"}
    \/ body.kind # "string"
    \/ Len(body.wallet) < 20

\* C22: a request to retrieve whose wallet is absent, not a string or
\* shorter than 20 characters is answered INVALID_WALLET and the store is
\* not queried; a wallet of 20 characters or more is never answered
\* INVALID_WALLET, and when it has no rows and the query returns, the answer
\* is ok:true with an empty list.
C22_WalletValidation ==
    \A p \in Workers : Finished(p) =>
        IF WalletRejected(w[p].body)
        THEN /\ w[p].result = [ok |-> FALSE, error |-> "INVALID_WALLET"]
             /\ w[p].trace = <<>>
             /\ w[p].req \notin storageFailed
        ELSE /\ ErrorOf(p) # "INVALID_WALLET"
             /\ "select" \in Steps(p)
             /\ (RowsOfUser(w[p].body.wallet) = {} /\ w[p].req \notin storageFailed)
                   => w[p].result.ok /\ w[p].result.proofs = <<>>

\* The second request, for a wallet of exactly 20 characters without rows,
\* got an empty list from a table that holds rows of others.
C22_Witness ==
    /\ w[SeqWorker].req = 2
    /\ w[SeqWorker].body.wallet = Wallet20
    /\ Len(w[SeqWorker].body.wallet) = 20
    /\ Len(Wallet19) = 19
    /\ Retrieved(SeqWorker)
    /\ w[SeqWorker].result.proofs = <<>>
    /\ Len(rows) > 0

\* ------------------------------------------- units available to compress
\* The create-account + mint-to of the request of worker p was confirmed,
\* or was rejected as already existing and the rejection tolerated.
PreparedOrTolerated(p) ==
    \/ "mintTo" \in KindsOf(w[p].req)
    \/ w[p].prepareLogs \in AlreadyExistsLogs

\* C23: whenever compress is invoked after the create-account + mint-to was
\* confirmed or was rejected as already existing, the holding account
\* exists and holds at least the amount of the request; and with a master
\* mint, a request that runs after one that persisted and whose compress
\* was submitted has its compression confirmed.
C23_UnitsAvailableAtCompress ==
    \A p \in Workers :
        /\ (w[p].pc = "compress" /\ PreparedOrTolerated(p)) =>
              /\ w[p].mintPublicKey \in atas
              /\ bal[w[p].mintPublicKey] >= w[p].amount
        /\ (env.masterMint /\ Len(rows) > 0 /\ Finished(p) /\ ~HasRow(w[p].req)
              /\ PreparedOrTolerated(p))
              => ErrorOf(p) # "COMPRESS_TX_FAILED"

\* --------------------------------------------- frame of a rejected claim
ClaimRejections == {"TX_NOT_FOUND", "INVALID_TX_BYTES_BASE58", "RUNTIME_HASH_MISMATCH"}
Substantiated(d) == d.txSignature \in LedgerSignatures /\ ClaimMatches(d)
Anchored(p) ==
    \/ LedgerTxsOf(w[p].req) # {}
    \/ HasRow(w[p].req)
    \/ Steps(p) \cap (SubmissionSteps \cup {"persist"}) # {}

RejectedClaimFrame ==
    /\ \A p \in Workers : Started(p) =>
          /\ (Finished(p) /\ ErrorOf(p) \in ClaimRejections) =>
                /\ ~Anchored(p)
                /\ ~w[p].hashVerified
                /\ w[p].req \notin storageFailed
          /\ ~Substantiated(w[p].dto) =>
                /\ ~Anchored(p)
                /\ Finished(p) /\ w[p].reads > 0 => ErrorOf(p) \in ClaimRejections
          /\ Anchored(p) => w[p].hashVerified /\ Substantiated(w[p].dto)
    /\ \A i \in 1..Len(rows) : rows[i].tx_signature \in LedgerSignatures

\* A step of a request that has not verified its claim after it changes
\* neither the ledger nor the table.
UnverifiedStep(p) ==
    (w'[p] # w[p] /\ ~w'[p].hashVerified) => UNCHANGED <<ledgerVars, rows, storageFailed>>

\* C24: a request that ends in TX_NOT_FOUND, INVALID_TX_BYTES_BASE58 or
\* RUNTIME_HASH_MISMATCH changed neither the ledger nor the table: no mint,
\* pool, holding account, unit, compression, memo or row comes from a
\* request before its transaction was found and its hash verified.
C24_RejectedClaimChangesNothing ==
    [][RejectedClaimFrame' /\ \A p \in Workers : UnverifiedStep(p)]_vars

\* Two requests ended in claim rejections; the ledger and the table are as
\* they were at the start.
C24_Witness ==
    /\ \A p \in Workers : Finished(p) /\ ErrorOf(p) \in ClaimRejections
    /\ \E p \in Workers : ErrorOf(p) = "INVALID_TX_BYTES_BASE58"
    /\ \E p \in Workers : ErrorOf(p) = "RUNTIME_HASH_MISMATCH"
    /\ ledgerTxs = {}
    /\ pools = {} /\ atas = {}
    /\ mints \subseteq {MasterMint}
    /\ rows = <<>>

====
